---- MODULE Spec2Model ----
(***************************************************************************)
(* Model of modules/aaa/mod_authz.c: the per-directory authorization       *)
(* configuration (Require directives), its merge across nested scopes, and *)
(* the auth_checker hook authorize_user.                                   *)
(*                                                                         *)
(* Encoding conventions                                                    *)
(*   - a C pointer is a sequence of length <= 1: NULL is <<>>, a pointer   *)
(*     to x is <<x>>;                                                      *)
(*   - the singly linked authz_provider_list is a sequence, head first;    *)
(*     current_provider is an index into it, 0 standing for NULL;          *)
(*   - a C string is the sequence of its whitespace-separated tokens.      *)
(***************************************************************************)
EXTENDS Integers, Sequences, FiniteSets, TLC

VARIABLES registry, conf, cmd, fault, published, per_dir_config,
          pc, current_provider, provider, auth_result, notes, invoked,
          return_code, challenges, method_number, hook_ret

vars == <<registry, conf, cmd, fault, published, per_dir_config,
          pc, current_provider, provider, auth_result, notes, invoked,
          return_code, challenges, method_number, hook_ret>>

confVars == <<registry, conf, cmd, fault, published, per_dir_config>>

reqVars == <<pc, current_provider, provider, auth_result, notes, invoked,
             return_code, challenges>>

\* r->method_number of each request, and what the most recent call of one
\* of the module's optional functions returned
hookVars == <<method_number, hook_ret>>

(***************************************************************************)
(* Bounds                                                                  *)
(***************************************************************************)
MaxBindings == 3

MaxChildBindings == 1

\* longest list configured when two requests are evaluated side by side
MaxConcBindings == 2

\* number of HTTP methods distinguished by a method mask
NumMethods == 2

(***************************************************************************)
(* Program constants                                                       *)
(***************************************************************************)
NULL == <<>>

OK == 0

HTTP_UNAUTHORIZED == 401

HTTP_INTERNAL_SERVER_ERROR == 500

AUTHZ_DENIED == "AUTHZ_DENIED"

AUTHZ_GRANTED == "AUTHZ_GRANTED"

AUTHZ_GENERAL_ERROR == "AUTHZ_GENERAL_ERROR"

\* auth_result before its first assignment
UNINITIALIZED == "UNINITIALIZED"

\* any authz_status value outside the three named ones
AUTHZ_OTHER == "AUTHZ_OTHER"

AuthzStatus == {AUTHZ_DENIED, AUTHZ_GRANTED, AUTHZ_GENERAL_ERROR, AUTHZ_OTHER}

AUTHZ_DEFAULT_PROVIDER == <<"file">>

\* cmd->limited outside any <Limit>: -1, every method bit set
AllMethods == 2 ^ NumMethods - 1

\* cmd->limited values: unrestricted, or <Limit GET> (bit 0 only)
Limited == {AllMethods, 1}

\* r->method_number values
Methods == 0..(NumMethods - 1)

Scopes == {"parent", "child"}

Requests == {"r1", "r2"}

\* raw arguments of the Require directives tried by the configuration
Args == { <<"valid-user">>, <<"group">>, <<"nocheck">>, <<"bogus">>,
          <<"group", "admin">> }

\* return values of add_authz_provider
RET_NULL == "NULL"

RET_UNKNOWN == "Unknown Authz provider"

RET_UNSUPPORTED == "Authz provider is not supported"

(***************************************************************************)
(* Provider registry (ap_provider.h), as mod_authz.c consumes it           *)
(***************************************************************************)
\* the states a provider name can have in the registry
ProviderStates == {"absent", "nocheck", "check"}

\* providers registered by the loaded authorization modules; the default
\* provider may be missing, present without check_authorization, or usable
Registries ==
    { [n \in {<<"valid-user">>, <<"group">>, <<"nocheck">>,
              AUTHZ_DEFAULT_PROVIDER} |->
          CASE n = <<"valid-user">> -> "check"
            [] n = <<"group">> -> "check"
            [] n = <<"nocheck">> -> "nocheck"
            [] OTHER -> d] : d \in ProviderStates }

\* ap_lookup_provider(AUTHZ_PROVIDER_GROUP, name, "0")
ap_lookup_provider(name) ==
    IF name \in DOMAIN registry /\ registry[name] # "absent"
    THEN << [name |-> name,
             check_authorization |-> (registry[name] = "check")] >>
    ELSE NULL

(***************************************************************************)
(* Per-directory configuration                                             *)
(***************************************************************************)
\* apr_pcalloc'ed authz_dir_conf: both fields NULL
create_authz_dir_config == [ap_requires |-> NULL, providers |-> <<>>]

\* the merge function defined in the file (it is not the registered merger)
merge_authz_dir_config(base, new) ==
    [base EXCEPT !.ap_requires =
        IF new.ap_requires # NULL THEN new.ap_requires ELSE @]

\* the module record with merge_authz_dir_config registered as dir merger
authz_module_registers_merger == [create_dir_config |-> "create_authz_dir_config",
                                  merge_dir_config |-> "merge_authz_dir_config"]

\* the module record: which per-directory callbacks are registered
authz_module == [create_dir_config |-> "create_authz_dir_config",
                 merge_dir_config |-> "NULL"]

\* a merge in which a section without a slot of its own does not inherit
ap_merge_per_dir_configs_no_inherit(base, new) ==
    IF new = NULL THEN <<create_authz_dir_config>> ELSE new

\* host: merge of the per-directory config slot of this module; base and
\* new are pointers to authz_dir_conf, new is NULL when the inner section
\* holds no directive of this module.  Without a registered merger the
\* inner slot overrides the outer one (line 270)
ap_merge_per_dir_configs(base, new) ==
    IF new = NULL THEN base
    ELSE IF base = NULL \/ authz_module.merge_dir_config = "NULL" THEN new
    ELSE << merge_authz_dir_config(base[1], new[1]) >>

\* the binding list of a config slot (empty for a slot never created)
Providers(c) == IF c = NULL THEN <<>> ELSE c[1].providers

\* add_authz_provider with the capability test left out
add_authz_provider_no_capability_check(cf, arg, limited) ==
    LET newp == [provider_name |-> arg, requirement |-> arg,
                 method_mask |-> limited,
                 provider |-> ap_lookup_provider(arg)]
    IN  IF newp.provider = NULL
        THEN [ret |-> RET_UNKNOWN, conf |-> cf]
        ELSE [ret |-> RET_NULL,
              conf |-> [cf EXCEPT !.providers = Append(@, newp)]]

\* add_authz_provider linking the entry before the provider is validated
add_authz_provider_links_first(cf, arg, limited) ==
    LET newp == [provider_name |-> arg, requirement |-> arg,
                 method_mask |-> limited,
                 provider |-> ap_lookup_provider(arg)]
        linked == [cf EXCEPT !.providers = Append(@, newp)]
    IN  IF newp.provider = NULL
        THEN [ret |-> RET_UNKNOWN, conf |-> linked]
        ELSE IF ~ newp.provider[1].check_authorization
        THEN [ret |-> RET_UNSUPPORTED, conf |-> linked]
        ELSE [ret |-> RET_NULL, conf |-> linked]

\* add_authz_provider linking the new entry at the head of the list
add_authz_provider_links_at_head(cf, arg, limited) ==
    LET newp == [provider_name |-> arg, requirement |-> arg,
                 method_mask |-> limited,
                 provider |-> ap_lookup_provider(arg)]
    IN  IF newp.provider = NULL
        THEN [ret |-> RET_UNKNOWN, conf |-> cf]
        ELSE IF ~ newp.provider[1].check_authorization
        THEN [ret |-> RET_UNSUPPORTED, conf |-> cf]
        ELSE [ret |-> RET_NULL,
              conf |-> [cf EXCEPT !.providers = <<newp>> \o @]]

\* add_authz_provider(cmd, config, arg): the returned message and the
\* config as the call leaves it
add_authz_provider(cf, arg, limited) ==
    LET newp == [provider_name |-> arg, requirement |-> arg,
                 method_mask |-> limited,
                 provider |-> ap_lookup_provider(arg)]
    IN  IF newp.provider = NULL
        THEN [ret |-> RET_UNKNOWN, conf |-> cf]
        ELSE IF ~ newp.provider[1].check_authorization
        THEN [ret |-> RET_UNSUPPORTED, conf |-> cf]
        ELSE [ret |-> RET_NULL,
              conf |-> [cf EXCEPT !.providers = Append(@, newp)]]

\* bound on the list a scope may grow to
MaxLen(s) == IF s = "parent" THEN MaxBindings ELSE MaxChildBindings

(***************************************************************************)
(* Initial state: registry loaded, the enclosing scope's slot created,     *)
(* the nested scope's slot not yet created, no request running             *)
(***************************************************************************)
InitLoaded ==
    /\ registry \in Registries
    /\ conf = [s \in Scopes |->
                 IF s = "parent" THEN <<create_authz_dir_config>> ELSE NULL]
    /\ cmd = NULL
    /\ fault = FALSE
    /\ published = FALSE
    /\ per_dir_config = NULL
    /\ pc = [r \in Requests |-> "idle"]
    /\ current_provider = [r \in Requests |-> 0]
    /\ provider = [r \in Requests |-> NULL]
    /\ auth_result = [r \in Requests |-> UNINITIALIZED]
    /\ notes = [r \in Requests |-> NULL]
    /\ invoked = [r \in Requests |-> <<>>]
    /\ return_code = [r \in Requests |-> NULL]
    /\ challenges = [r \in Requests |-> 0]
    /\ hook_ret = NULL

\* requests of the first method (M_GET)
Init ==
    /\ InitLoaded
    /\ method_number = [r \in Requests |-> 0]

\* requests of any one method
InitHooks ==
    /\ InitLoaded
    /\ \E m \in Methods : method_number = [r \in Requests |-> m]

(***************************************************************************)
(* Configuration load                                                      *)
(***************************************************************************)
\* one Require directive in scope s: the host creates the module's slot
\* for the section on its first directive, then calls add_authz_provider
Require(s, arg, limited) ==
    /\ ~ published
    /\ Len(Providers(conf[s])) < MaxLen(s)
    /\ LET cf  == IF conf[s] = NULL THEN create_authz_dir_config
                  ELSE conf[s][1]
           res == add_authz_provider(cf, arg, limited)
       IN  /\ conf' = [conf EXCEPT ![s] = <<res.conf>>]
           /\ cmd' = << [scope |-> s, arg |-> arg, limited |-> limited,
                         ret |-> res.ret] >>
           /\ fault' = (fault \/ res.ret # RET_NULL)
    /\ UNCHANGED <<registry, published, per_dir_config>>
    /\ UNCHANGED reqVars
    /\ UNCHANGED hookVars

\* the configuration loaded without a directive error: the host merges the
\* nested scope over the enclosing one and publishes the result for requests
Publish ==
    /\ ~ published
    /\ ~ fault
    /\ per_dir_config' = ap_merge_per_dir_configs(conf["parent"], conf["child"])
    /\ published' = TRUE
    /\ cmd' = NULL
    /\ UNCHANGED <<registry, conf, fault>>
    /\ UNCHANGED reqVars
    /\ UNCHANGED hookVars

(***************************************************************************)
(* authorize_user, the auth_checker hook                                   *)
(***************************************************************************)
\* the list the request walks: conf->providers of r->per_dir_config
ConfProviders == Providers(per_dir_config)

\* values an out-of-bounds read of method_mask can yield
IndeterminateMasks == {0, AllMethods}

\* what a read of requirement through a NULL entry yields
IndeterminateRequirement == <<"indeterminate">>

\* loop control that stops on AUTHZ_GRANTED only
loop_control_stops_on_grant_only(v, cur, n) ==
    IF v = AUTHZ_GRANTED THEN [pc |-> "map", cur |-> cur]
    ELSE IF n = 0 THEN [pc |-> "map", cur |-> cur]
    ELSE IF cur < n THEN [pc |-> "select", cur |-> cur + 1]
    ELSE [pc |-> "map", cur |-> 0]

\* loop control that walks the whole list whatever the verdicts
loop_control_never_breaks(v, cur, n) ==
    IF n = 0 THEN [pc |-> "map", cur |-> cur]
    ELSE IF cur < n THEN [pc |-> "select", cur |-> cur + 1]
    ELSE [pc |-> "map", cur |-> 0]

\* lines 183-193: after a check returned v for entry cur of a list of n
\* entries (cur = 0, n = 0 for the default provider), where to go next
loop_control(v, cur, n) ==
    IF v # AUTHZ_DENIED THEN [pc |-> "map", cur |-> cur]
    ELSE IF n = 0 THEN [pc |-> "map", cur |-> cur]
    ELSE IF cur < n THEN [pc |-> "select", cur |-> cur + 1]
    ELSE [pc |-> "map", cur |-> 0]

\* the mapping with the two failure codes exchanged
decision_swapped(res) ==
    IF res # AUTHZ_GRANTED
    THEN IF res = AUTHZ_DENIED THEN HTTP_INTERNAL_SERVER_ERROR
         ELSE HTTP_UNAUTHORIZED
    ELSE OK

\* a mapping that names the two failure verdicts and lets the rest pass
decision_grants_unknown(res) ==
    IF res = AUTHZ_DENIED THEN HTTP_UNAUTHORIZED
    ELSE IF res = AUTHZ_GENERAL_ERROR THEN HTTP_INTERNAL_SERVER_ERROR
    ELSE OK

\* lines 195-222: the return code for a final auth_result
decision(res) ==
    IF res # AUTHZ_GRANTED
    THEN IF res = AUTHZ_DENIED THEN HTTP_UNAUTHORIZED
         ELSE HTTP_INTERNAL_SERVER_ERROR
    ELSE OK

\* a challenge noted on every failure return
notes_auth_failure_on_any_failure(res, code) == res # AUTHZ_GRANTED

\* lines 214-218: whether ap_note_basic_auth_failure is called
notes_auth_failure(res, code) ==
    res # AUTHZ_GRANTED /\ code = HTTP_UNAUTHORIZED

\* the note always taken from the head of the list
active_provider_note_from_head(cur) ==
    IF cur = 0 THEN <<AUTHZ_DEFAULT_PROVIDER>>
    ELSE <<ConfProviders[1].provider_name>>

\* lines 162-163, 167-168: the AUTHZ_PROVIDER_NAME_NOTE set before the
\* check of entry cur (cur = 0: the default provider)
active_provider_note(cur) ==
    IF cur = 0 THEN <<AUTHZ_DEFAULT_PROVIDER>>
    ELSE <<ConfProviders[cur].provider_name>>

\* the default provider accepted as soon as the lookup finds it
default_usable_ignores_capability(p) == p # NULL

\* line 156: the default provider resolved and can check
default_usable(p) == p # NULL /\ p[1].check_authorization

\* lines 140-145: fetch the config, point at the head of the list
Start(r) ==
    /\ published
    /\ pc[r] = "idle"
    /\ current_provider' =
          [current_provider EXCEPT ![r] = IF ConfProviders = <<>> THEN 0 ELSE 1]
    /\ pc' = [pc EXCEPT ![r] = "select"]
    /\ UNCHANGED confVars
    /\ UNCHANGED hookVars
    /\ UNCHANGED <<provider, auth_result, notes, invoked, return_code,
                   challenges>>

\* lines 152-169: pick the provider of this iteration and note its name
Select(r) ==
    /\ pc[r] = "select"
    /\ IF current_provider[r] = 0
       THEN LET p == ap_lookup_provider(AUTHZ_DEFAULT_PROVIDER)
            IN  IF ~ default_usable(p)
                THEN /\ auth_result' =
                            [auth_result EXCEPT ![r] = AUTHZ_GENERAL_ERROR]
                     /\ pc' = [pc EXCEPT ![r] = "map"]
                     /\ provider' = [provider EXCEPT ![r] = p]
                     /\ UNCHANGED notes
                ELSE /\ provider' = [provider EXCEPT ![r] = p]
                     /\ notes' = [notes EXCEPT ![r] = active_provider_note(0)]
                     /\ pc' = [pc EXCEPT ![r] = "call"]
                     /\ UNCHANGED auth_result
       ELSE LET b == ConfProviders[current_provider[r]]
            IN  /\ provider' = [provider EXCEPT ![r] = b.provider]
                /\ notes' = [notes EXCEPT ![r] =
                                active_provider_note(current_provider[r])]
                /\ pc' = [pc EXCEPT ![r] = "call"]
                /\ UNCHANGED auth_result
    /\ UNCHANGED confVars
    /\ UNCHANGED hookVars
    /\ UNCHANGED <<current_provider, invoked, return_code, challenges>>

\* the same step with current_provider kept in storage shared by all
\* requests (a static variable) instead of a local of authorize_user
Invoke_shared_cursor(r, mask, requirement, v) ==
    LET nxt == loop_control(v, current_provider[r], Len(ConfProviders))
    IN  /\ invoked' = [invoked EXCEPT ![r] =
               Append(@, [idx |-> current_provider[r],
                          name |-> provider[r][1].name,
                          method_mask |-> mask,
                          requirement |-> requirement,
                          note |-> notes[r],
                          v |-> v])]
        /\ auth_result' = [auth_result EXCEPT ![r] = v]
        /\ notes' = [notes EXCEPT ![r] = NULL]
        /\ pc' = [pc EXCEPT ![r] = nxt.pc]
        /\ current_provider' = [q \in Requests |-> nxt.cur]
        /\ UNCHANGED <<provider, return_code, challenges>>

\* the call of line 172 once its arguments are known, the clearing of the
\* note (line 176) and the loop control (lines 183-193)
Invoke(r, mask, requirement, v) ==
    LET nxt == loop_control(v, current_provider[r], Len(ConfProviders))
    IN  /\ invoked' = [invoked EXCEPT ![r] =
               Append(@, [idx |-> current_provider[r],
                          name |-> provider[r][1].name,
                          method_mask |-> mask,
                          requirement |-> requirement,
                          note |-> notes[r],
                          v |-> v])]
        /\ auth_result' = [auth_result EXCEPT ![r] = v]
        /\ notes' = [notes EXCEPT ![r] = NULL]
        /\ pc' = [pc EXCEPT ![r] = nxt.pc]
        /\ current_provider' = [current_provider EXCEPT ![r] = nxt.cur]
        /\ UNCHANGED <<provider, return_code, challenges>>

\* lines 246-247: method_mask & (AP_METHOD_BIT << method_number) is non-zero
method_bit_set(mask, m) == (mask \div (2 ^ m)) % 2 = 1

\* the call made only for an entry whose mask has the request's method,
\* any other entry being passed over as if it had denied
Call_filters_by_method(r) ==
    /\ pc[r] = "call"
    /\ current_provider[r] # 0
    /\ LET b == ConfProviders[current_provider[r]]
       IN  IF method_bit_set(b.method_mask, method_number[r])
           THEN \E v \in AuthzStatus :
                   Invoke(r, b.method_mask, b.requirement, v)
           ELSE LET nxt == loop_control(AUTHZ_DENIED, current_provider[r],
                                       Len(ConfProviders))
                IN  /\ auth_result' = [auth_result EXCEPT ![r] = AUTHZ_DENIED]
                    /\ notes' = [notes EXCEPT ![r] = NULL]
                    /\ pc' = [pc EXCEPT ![r] = nxt.pc]
                    /\ current_provider' =
                          [current_provider EXCEPT ![r] = nxt.cur]
                    /\ UNCHANGED <<provider, invoked, return_code,
                                   challenges>>
    /\ UNCHANGED confVars
    /\ UNCHANGED hookVars

\* lines 172-193 with a list entry at hand: the provider's check is given
\* the entry's method mask and requirement and answers v
Call(r) ==
    /\ pc[r] = "call"
    /\ current_provider[r] # 0
    /\ IF provider[r] # NULL /\ provider[r][1].check_authorization
       THEN \E v \in AuthzStatus :
               LET b == ConfProviders[current_provider[r]]
               IN  Invoke(r, b.method_mask, b.requirement, v)
       ELSE \* a call through a null function pointer
            /\ pc' = [pc EXCEPT ![r] = "crashed"]
            /\ UNCHANGED <<current_provider, provider, auth_result, notes,
                           invoked, return_code, challenges>>
    /\ UNCHANGED confVars
    /\ UNCHANGED hookVars

\* lines 172-174 after the default provider was picked: current_provider is
\* NULL and the arguments are read through it.  The read is undefined: the
\* process faults, or the call goes ahead with whatever the reads yielded
CallDefault(r) ==
    /\ pc[r] = "call"
    /\ current_provider[r] = 0
    /\ \/ /\ pc' = [pc EXCEPT ![r] = "crashed"]
          /\ UNCHANGED <<current_provider, provider, auth_result, notes,
                         invoked, return_code, challenges>>
       \/ \E m \in IndeterminateMasks, v \in AuthzStatus :
             Invoke(r, m, IndeterminateRequirement, v)
    /\ UNCHANGED confVars
    /\ UNCHANGED hookVars

\* lines 195-222: turn the final auth_result into the hook's return value
Return(r) ==
    /\ pc[r] = "map"
    /\ LET code == decision(auth_result[r])
       IN  /\ return_code' = [return_code EXCEPT ![r] = <<code>>]
           /\ challenges' = [challenges EXCEPT ![r] =
                  IF notes_auth_failure(auth_result[r], code)
                  THEN @ + 1 ELSE @]
    /\ pc' = [pc EXCEPT ![r] = "returned"]
    /\ UNCHANGED confVars
    /\ UNCHANGED hookVars
    /\ UNCHANGED <<current_provider, provider, auth_result, notes, invoked>>

(***************************************************************************)
(* Specification: configuration load, then one request                     *)
(***************************************************************************)
Next ==
    \/ \E s \in Scopes, arg \in Args, limited \in Limited :
          Require(s, arg, limited)
    \/ Publish
    \/ Start("r1")
    \/ Select("r1")
    \/ Call("r1")
    \/ CallDefault("r1")
    \/ Return("r1")

Spec == Init /\ [][Next]_vars

(***************************************************************************)
(* The optional functions authz_ap_requires and authz_some_auth_required   *)
(***************************************************************************)
\* the walk leaving the loop after the first entry whatever its mask
authz_some_auth_required_first_entry_only(list, m) ==
    IF list = <<>> THEN 0
    ELSE IF method_bit_set(Head(list).method_mask, m) THEN 1
    ELSE 0

RECURSIVE authz_some_auth_required(_, _)

\* lines 240-255: walk the list from the given entry on, 1 at the first
\* entry whose mask has the method's bit, 0 when the list runs out
authz_some_auth_required(list, m) ==
    IF list = <<>> THEN 0
    ELSE IF method_bit_set(Head(list).method_mask, m) THEN 1
    ELSE authz_some_auth_required(Tail(list), m)

\* line 232: the ap_requires field of the request's config
authz_ap_requires(cf) == cf.ap_requires

\* a call of authz_some_auth_required(r)
SomeAuthRequired(r) ==
    /\ published
    /\ hook_ret' = << [fn |-> "authz_some_auth_required", r |-> r,
                       req_authz |-> authz_some_auth_required(
                                        ConfProviders, method_number[r]),
                       requires |-> NULL] >>
    /\ UNCHANGED confVars
    /\ UNCHANGED reqVars
    /\ UNCHANGED method_number

\* a call of authz_ap_requires(r)
ApRequires(r) ==
    /\ published
    /\ hook_ret' = << [fn |-> "authz_ap_requires", r |-> r,
                       req_authz |-> 0,
                       requires |-> authz_ap_requires(per_dir_config[1])] >>
    /\ UNCHANGED confVars
    /\ UNCHANGED reqVars
    /\ UNCHANGED method_number

(***************************************************************************)
(* Specification: one scope loaded, then one request of any method with    *)
(* the optional functions called at any point of it                        *)
(***************************************************************************)
NextHooks ==
    \/ \E arg \in Args, limited \in Limited : Require("parent", arg, limited)
    \/ Publish
    \/ SomeAuthRequired("r1")
    \/ ApRequires("r1")
    \/ Start("r1")
    \/ Select("r1")
    \/ Call("r1")
    \/ CallDefault("r1")
    \/ Return("r1")

SpecHooks == InitHooks /\ [][NextHooks]_vars

(***************************************************************************)
(* Specification: one scope loaded and published, then two requests        *)
(* served concurrently, each by its own thread                             *)
(***************************************************************************)
\* a Require directive of the one scope, its list kept short
RequireConc(arg, limited) ==
    /\ Len(Providers(conf["parent"])) < MaxConcBindings
    /\ Require("parent", arg, limited)

NextConc ==
    \/ \E arg \in Args, limited \in Limited : RequireConc(arg, limited)
    \/ Publish
    \/ \E r \in Requests :
          \/ SomeAuthRequired(r)
          \/ ApRequires(r)
          \/ Start(r)
          \/ Select(r)
          \/ Call(r)
          \/ CallDefault(r)
          \/ Return(r)

SpecConc == Init /\ [][NextConc]_vars

(***************************************************************************)
(* Properties                                                              *)
(***************************************************************************)
\* a request whose evaluation loop has ended
LoopEnded(r) == pc[r] \in {"map", "returned"}

\* the position of the first entry of a log whose verdict is not Denied
\* (0 when every entry is Denied)
FirstNonDenied(log) ==
    IF \E i \in 1..Len(log) : log[i].v # AUTHZ_DENIED
    THEN CHOOSE i \in 1..Len(log) :
            /\ log[i].v # AUTHZ_DENIED
            /\ \A j \in 1..(i - 1) : log[j].v = AUTHZ_DENIED
    ELSE 0

\* C1: over a non-empty binding list, the final verdict is the verdict of
\* the first binding, in declared order, whose provider answered something
\* other than Denied; it is Denied only when every binding of the list was
\* asked and answered Denied.
C1_FirstNonDeniedWins ==
    \A r \in Requests :
        (LoopEnded(r) /\ ConfProviders # <<>>) =>
            LET log == invoked[r]
                k   == FirstNonDenied(log)
            IN  /\ \A i \in 1..Len(log) : log[i].idx = i
                /\ IF k # 0
                   THEN auth_result[r] = log[k].v
                   ELSE /\ auth_result[r] = AUTHZ_DENIED
                        /\ Len(log) = Len(ConfProviders)

\* C1 witness: [Denied, Error, ...] ended with Error
C1_Witness ==
    /\ pc["r1"] = "returned"
    /\ Len(ConfProviders) = 3
    /\ Len(invoked["r1"]) = 2
    /\ invoked["r1"][1].v = AUTHZ_DENIED
    /\ invoked["r1"][2].v = AUTHZ_GENERAL_ERROR
    /\ auth_result["r1"] = AUTHZ_GENERAL_ERROR

\* C2: over a non-empty binding list the invocations are the bindings
\* 1..k in declared order, each once, where k is the first binding that
\* answered non-Denied (the last binding if all answered Denied); no
\* binding after k is invoked.
C2_InvocationsArePrefix ==
    \A r \in Requests :
        ConfProviders # <<>> =>
            LET log == invoked[r]
                n   == Len(ConfProviders)
            IN  /\ Len(log) <= n
                /\ \A i \in 1..Len(log) :
                      /\ log[i].idx = i
                      /\ log[i].name = ConfProviders[i].provider_name
                /\ \A i \in 1..(Len(log) - 1) : log[i].v = AUTHZ_DENIED
                /\ LoopEnded(r) =>
                      /\ Len(log) >= 1
                      /\ log[Len(log)].v # AUTHZ_DENIED \/ Len(log) = n

\* C2 witness: [Denied, Denied, Denied] invoked all three, in order
C2_Witness ==
    /\ pc["r1"] = "returned"
    /\ Len(ConfProviders) = 3
    /\ Len(invoked["r1"]) = 3
    /\ \A i \in 1..3 : invoked["r1"][i].v = AUTHZ_DENIED
    /\ ConfProviders[1].provider_name # ConfProviders[2].provider_name

\* C3: the value authorize_user returns depends on the final verdict only:
\* Granted gives OK, Denied gives HTTP_UNAUTHORIZED, Error gives
\* HTTP_INTERNAL_SERVER_ERROR; a return is one of these three values and
\* nothing is returned before the evaluation ended.
C3_OutcomeFromVerdict ==
    \A r \in Requests :
        IF pc[r] = "returned"
        THEN /\ Len(return_code[r]) = 1
             /\ return_code[r][1] \in
                   {OK, HTTP_UNAUTHORIZED, HTTP_INTERNAL_SERVER_ERROR}
             /\ auth_result[r] = AUTHZ_GRANTED => return_code[r][1] = OK
             /\ auth_result[r] = AUTHZ_DENIED =>
                   return_code[r][1] = HTTP_UNAUTHORIZED
             /\ auth_result[r] = AUTHZ_GENERAL_ERROR =>
                   return_code[r][1] = HTTP_INTERNAL_SERVER_ERROR
        ELSE return_code[r] = NULL

\* C3 witness: a provider's Error came back as HTTP_INTERNAL_SERVER_ERROR
C3_Witness ==
    /\ pc["r1"] = "returned"
    /\ Len(invoked["r1"]) = 1
    /\ auth_result["r1"] = AUTHZ_GENERAL_ERROR
    /\ return_code["r1"] = <<HTTP_INTERNAL_SERVER_ERROR>>

\* C4: the authentication challenge is issued exactly once in an evaluation
\* that ends Denied, and never in one that ends Granted or Error (nor
\* before the evaluation has ended).
C4_ChallengeOnlyOnDenied ==
    \A r \in Requests :
        /\ (pc[r] = "returned" /\ auth_result[r] = AUTHZ_DENIED) =>
               challenges[r] = 1
        /\ (pc[r] = "returned" /\
            auth_result[r] \in {AUTHZ_GRANTED, AUTHZ_GENERAL_ERROR}) =>
               challenges[r] = 0
        /\ pc[r] # "returned" => challenges[r] = 0

\* C4 witness: two bindings denied, one challenge issued
C4_Witness ==
    /\ pc["r1"] = "returned"
    /\ auth_result["r1"] = AUTHZ_DENIED
    /\ Len(invoked["r1"]) = 2
    /\ challenges["r1"] = 1

\* the default provider as the registry resolves it
DefaultProvider == ap_lookup_provider(AUTHZ_DEFAULT_PROVIDER)

\* the default provider resolves and has the check capability
DefaultWorks ==
    DefaultProvider # NULL /\ DefaultProvider[1].check_authorization

\* C5: with an empty binding list and a default provider that resolves and
\* can check, the evaluation does not fault, invokes the default provider
\* exactly once, and returns OK when that provider answers Granted.
C5_DefaultProviderUsed ==
    \A r \in Requests :
        (published /\ ConfProviders = <<>> /\ DefaultWorks) =>
            /\ pc[r] # "crashed"
            /\ LoopEnded(r) =>
                  /\ Len(invoked[r]) = 1
                  /\ invoked[r][1].name = AUTHZ_DEFAULT_PROVIDER
            /\ (pc[r] = "returned" /\ auth_result[r] = AUTHZ_GRANTED) =>
                  return_code[r] = <<OK>>

\* C6: with an empty binding list and a default provider that is missing
\* or cannot check, authorize_user returns HTTP_INTERNAL_SERVER_ERROR,
\* invokes no provider check and issues no challenge.
C6_NoDefaultIsServerError ==
    \A r \in Requests :
        (published /\ ConfProviders = <<>> /\ ~ DefaultWorks) =>
            /\ invoked[r] = <<>>
            /\ challenges[r] = 0
            /\ pc[r] \notin {"call", "crashed"}
            /\ LoopEnded(r) => auth_result[r] = AUTHZ_GENERAL_ERROR
            /\ pc[r] = "returned" =>
                  return_code[r] = <<HTTP_INTERNAL_SERVER_ERROR>>

\* C6 witness: the default provider is registered without a check function
\* and the request came back with HTTP_INTERNAL_SERVER_ERROR
C6_Witness ==
    /\ pc["r1"] = "returned"
    /\ ConfProviders = <<>>
    /\ registry[AUTHZ_DEFAULT_PROVIDER] = "nocheck"
    /\ return_code["r1"] = <<HTTP_INTERNAL_SERVER_ERROR>>
    /\ invoked["r1"] = <<>>

\* C7: when the child scope has at least one binding, the list the merged
\* scope publishes is the child's list, in the child's order, with none of
\* the parent's bindings.
C7_ChildListReplacesParent ==
    (published /\ Providers(conf["child"]) # <<>>) =>
        ConfProviders = Providers(conf["child"])

\* C7 witness: child [X] over parent [Y, Z] published as [X]
C7_Witness ==
    /\ published
    /\ Len(Providers(conf["child"])) = 1
    /\ Len(Providers(conf["parent"])) = 2
    /\ \A i \in 1..2 :
          Providers(conf["parent"])[i] # Providers(conf["child"])[1]
    /\ ConfProviders = Providers(conf["child"])

\* C8: when the child scope has no binding, the list the merged scope
\* publishes is the parent's list, verbatim and in the parent's order.
C8_EmptyChildInheritsParent ==
    (published /\ Providers(conf["child"]) = <<>>) =>
        ConfProviders = Providers(conf["parent"])

\* C8 witness: child [] over parent [Y, Z] published as [Y, Z]
C8_Witness ==
    /\ published
    /\ Providers(conf["child"]) = <<>>
    /\ Len(Providers(conf["parent"])) = 2
    /\ Providers(conf["parent"])[1] # Providers(conf["parent"])[2]
    /\ ConfProviders = Providers(conf["parent"])

\* C9: a Require naming a provider the registry does not know returns the
\* unknown-provider message, one naming a provider without the check
\* capability returns the unsupported message, and in both cases every
\* scope's binding list is what it was before the call.
C9_FailedBindLeavesList ==
    [][ cmd' # NULL =>
          LET c == cmd'[1]
              p == ap_lookup_provider(c.arg)
          IN  /\ p = NULL =>
                    /\ c.ret = RET_UNKNOWN
                    /\ \A s \in Scopes :
                          Providers(conf'[s]) = Providers(conf[s])
              /\ (p # NULL /\ ~ p[1].check_authorization) =>
                    /\ c.ret = RET_UNSUPPORTED
                    /\ \A s \in Scopes :
                          Providers(conf'[s]) = Providers(conf[s])
      ]_vars

\* C9 witness: a Require of a provider without the check capability was
\* refused on a scope that already holds two bindings
C9_Witness ==
    /\ cmd # NULL
    /\ cmd[1].ret = RET_UNSUPPORTED
    /\ cmd[1].scope = "parent"
    /\ Len(Providers(conf["parent"])) = 2

\* C10: whatever Require directives were processed, accepted or refused,
\* every binding in every scope's list has a non-null provider with the
\* check_authorization capability.
C10_BindingsAreResolved ==
    \A s \in Scopes :
        \A i \in 1..Len(Providers(conf[s])) :
            LET b == Providers(conf[s])[i]
            IN  /\ b.provider # NULL
                /\ b.provider[1].check_authorization

\* C10 witness: a binding accepted after an earlier directive was refused
C10_Witness ==
    /\ fault
    /\ cmd # NULL
    /\ cmd[1].ret = RET_NULL
    /\ Len(Providers(conf["parent"])) = 2
    /\ Len(Providers(conf["child"])) = 1

\* C11: an accepted Require appends one entry at the tail of its scope's
\* list: the entries already there keep their positions and contents, the
\* new entry carries the directive's method mask and the provider resolved
\* for its name, the other scope's list is untouched, and an entry equal
\* to an existing one is added all the same.
C11_TailAppend ==
    [][ (cmd' # NULL /\ cmd'[1].ret = RET_NULL) =>
          LET c   == cmd'[1]
              old == Providers(conf[c.scope])
              new == Providers(conf'[c.scope])
          IN  /\ Len(new) = Len(old) + 1
              /\ SubSeq(new, 1, Len(old)) = old
              /\ new[Len(new)].method_mask = c.limited
              /\ new[Len(new)].provider =
                    ap_lookup_provider(new[Len(new)].provider_name)
              /\ Head(new[Len(new)].provider_name) = Head(c.arg)
              /\ \A s \in Scopes \ {c.scope} :
                    Providers(conf'[s]) = Providers(conf[s])
      ]_vars

\* C11 witness: the same binding accepted twice, then a different one
C11_Witness ==
    /\ cmd # NULL
    /\ cmd[1].ret = RET_NULL
    /\ cmd[1].scope = "parent"
    /\ Len(Providers(conf["parent"])) = 3
    /\ Providers(conf["parent"])[1] = Providers(conf["parent"])[2]
    /\ Providers(conf["parent"])[3] # Providers(conf["parent"])[1]
    /\ Providers(conf["parent"])[3].provider_name = cmd[1].arg

\* the methods a mask contains
MethodsOf(mask) == { m \in Methods : (mask \div (2 ^ m)) % 2 = 1 }

\* C12: authz_some_auth_required returns 1 exactly when some binding of
\* the scope's list has a mask containing the request's method (so 0 for
\* an empty list, whatever the method), and the call invokes no provider
\* check.
C12_SomeAuthRequired ==
    /\ [] (\A r \in Requests :
             (hook_ret # NULL /\ hook_ret[1].fn = "authz_some_auth_required"
                /\ hook_ret[1].r = r) =>
                 (hook_ret[1].req_authz = 1 <=>
                    \E i \in 1..Len(ConfProviders) :
                       method_number[r] \in
                          MethodsOf(ConfProviders[i].method_mask)))
    /\ [][ hook_ret' # hook_ret => invoked' = invoked ]_vars

\* C12 witness: a non-empty list none of whose masks contains the method
C12_Witness ==
    /\ hook_ret # NULL
    /\ hook_ret[1].fn = "authz_some_auth_required"
    /\ hook_ret[1].req_authz = 0
    /\ Len(ConfProviders) = 2
    /\ method_number["r1"] = 1

\* C12 witness of the other answer: only the last of three masks contains
\* the method
SomeAuthRequiredByLastEntry ==
    /\ hook_ret # NULL
    /\ hook_ret[1].fn = "authz_some_auth_required"
    /\ hook_ret[1].req_authz = 1
    /\ Len(ConfProviders) = 3
    /\ method_number["r1"] \notin MethodsOf(ConfProviders[1].method_mask)
    /\ method_number["r1"] \notin MethodsOf(ConfProviders[2].method_mask)

\* C13: what authz_ap_requires returns is the ordered binding list the
\* evaluator walks for the scope.
C13_RawBindingsAreTheList ==
    (hook_ret # NULL /\ hook_ret[1].fn = "authz_ap_requires") =>
        hook_ret[1].requires = ConfProviders

\* C14: the name a Require directive looks up in the registry, and records
\* as the binding's provider name, is the first token of its raw
\* arguments, and the binding's requirement is the rest of the arguments
\* after that token.
C14_NameIsFirstToken ==
    cmd # NULL =>
        LET c    == cmd[1]
            name == << Head(c.arg) >>
            list == Providers(conf[c.scope])
        IN  /\ c.ret = RET_UNKNOWN <=> ap_lookup_provider(name) = NULL
            /\ c.ret = RET_NULL =>
                  /\ list[Len(list)].provider_name = name
                  /\ list[Len(list)].requirement = Tail(c.arg)

\* everything a request's evaluation reads or writes besides the config
Local(r) == <<pc[r], current_provider[r], provider[r], auth_result[r],
              notes[r], invoked[r], return_code[r], challenges[r],
              method_number[r]>>

\* what a request evaluated alone over a non-empty list shows at any point:
\* the bindings invoked in order from the head with their own arguments,
\* only the last one possibly not Denied, and once the walk has ended the
\* last verdict as result and its return code
EvaluatedAsAlone(r) ==
    LET log == invoked[r]
        n   == Len(ConfProviders)
    IN  /\ Len(log) <= n
        /\ \A i \in 1..Len(log) :
              /\ log[i].idx = i
              /\ log[i].name = ConfProviders[i].provider_name
              /\ log[i].method_mask = ConfProviders[i].method_mask
              /\ log[i].requirement = ConfProviders[i].requirement
        /\ \A i \in 1..(Len(log) - 1) : log[i].v = AUTHZ_DENIED
        /\ pc[r] \in {"select", "call"} => current_provider[r] = Len(log) + 1
        /\ LoopEnded(r) =>
              /\ Len(log) >= 1
              /\ log[Len(log)].v # AUTHZ_DENIED \/ Len(log) = n
              /\ auth_result[r] = log[Len(log)].v
        /\ pc[r] = "returned" =>
              return_code[r] =
                 << CASE auth_result[r] = AUTHZ_GRANTED -> OK
                      [] auth_result[r] = AUTHZ_DENIED -> HTTP_UNAUTHORIZED
                      [] OTHER -> HTTP_INTERNAL_SERVER_ERROR >>

\* C15: once the scope is published no step changes the binding lists,
\* the published config or the registry; a step of one request leaves
\* every other request's state alone; and so, under any interleaving of
\* the requests, each one's invocations and outcome are those of a
\* request evaluated alone.
C15_PublishedConfigIsFrozen ==
    /\ [] (\A r \in Requests : ConfProviders # <<>> => EvaluatedAsAlone(r))
    /\ [][ published =>
             /\ conf' = conf
             /\ per_dir_config' = per_dir_config
             /\ registry' = registry
             /\ \A r \in Requests :
                   Local(r)' # Local(r) =>
                      \A q \in Requests \ {r} : Local(q)' = Local(q)
         ]_vars

\* C15 witness: both requests in the middle of their walks, at different
\* entries, after an optional function was called
C15_Witness ==
    /\ pc["r1"] = "call"
    /\ pc["r2"] = "call"
    /\ current_provider["r1"] = 1
    /\ current_provider["r2"] = 2
    /\ hook_ret # NULL

\* C16: the evaluator does not filter by method.  Every binding the walk
\* reaches is invoked, whether or not its mask contains the request's
\* method, and the check is handed that binding's own method mask and
\* requirement string unchanged.
C16_NoMethodFilter ==
    \A r \in Requests :
        ConfProviders # <<>> =>
            LET log == invoked[r]
            IN  /\ \A i \in 1..Len(log) :
                      /\ log[i].idx = i
                      /\ log[i].method_mask = ConfProviders[i].method_mask
                      /\ log[i].requirement = ConfProviders[i].requirement
                /\ pc[r] \in {"select", "call"} =>
                      Len(log) = current_provider[r] - 1
                /\ LoopEnded(r) =>
                      /\ Len(log) >= 1
                      /\ \/ log[Len(log)].v # AUTHZ_DENIED
                         \/ Len(log) = Len(ConfProviders)

\* C16 witness: authz_some_auth_required answered 0 for the request's
\* method, yet both bindings were invoked and the request was denied
C16_Witness ==
    /\ hook_ret # NULL
    /\ hook_ret[1].fn = "authz_some_auth_required"
    /\ hook_ret[1].req_authz = 0
    /\ pc["r1"] = "returned"
    /\ auth_result["r1"] = AUTHZ_DENIED
    /\ Len(invoked["r1"]) = 2
    /\ \A i \in 1..2 :
          method_number["r1"] \notin MethodsOf(invoked["r1"][i].method_mask)

\* C17: when a provider's check is invoked, the request's active-provider
\* note holds the name of exactly that provider (the binding's provider
\* name, or the default provider's name); the note is set only while a
\* check is pending and is unset between checks and once authorize_user
\* has returned.
C17_NoteProtocol ==
    \A r \in Requests :
        /\ \A i \in 1..Len(invoked[r]) :
              LET e == invoked[r][i]
              IN  /\ e.note = << e.name >>
                  /\ e.idx # 0 =>
                        e.note = << ConfProviders[e.idx].provider_name >>
                  /\ e.idx = 0 => e.note = << AUTHZ_DEFAULT_PROVIDER >>
        /\ pc[r] \in {"idle", "select", "map", "returned"} => notes[r] = NULL
        /\ pc[r] = "call" => notes[r] # NULL

\* C17 witness: two checks made under two different notes, the note unset
\* after the return
C17_Witness ==
    /\ pc["r1"] = "returned"
    /\ Len(invoked["r1"]) = 2
    /\ invoked["r1"][1].note # invoked["r1"][2].note
    /\ invoked["r1"][2].note = << ConfProviders[2].provider_name >>
    /\ notes["r1"] = NULL

\* the larger of two numbers
Max(a, b) == IF a >= b THEN a ELSE b

\* C18: every evaluation comes to its outcome without a fault and without
\* retries: at most max(n, 1) provider invocations over a list of n
\* bindings, no binding invoked twice, nothing invoked after a provider
\* answered Error, and nothing invoked when the default provider does not
\* resolve.
C18_TerminatesWithoutRetry ==
    \A r \in Requests :
        LET log == invoked[r]
        IN  /\ pc[r] # "crashed"
            /\ Len(log) <= Max(Len(ConfProviders), 1)
            /\ \A i, j \in 1..Len(log) : i # j => log[i].idx # log[j].idx
            /\ \A i \in 1..(Len(log) - 1) : log[i].v # AUTHZ_GENERAL_ERROR
            /\ (published /\ ConfProviders = <<>> /\ ~ DefaultWorks) =>
                  log = <<>>

\* C19: authorize_user reads a binding's fields only through a real list
\* entry: whenever a check is about to be made, and for every check that
\* was made, current_provider designates an entry of the list, the
\* fallback to the default provider over an empty list included.
C19_CurrentBindingIsReal ==
    \A r \in Requests :
        /\ pc[r] = "call" => current_provider[r] \in 1..Len(ConfProviders)
        /\ \A i \in 1..Len(invoked[r]) :
              invoked[r][i].idx \in 1..Len(ConfProviders)
        /\ pc[r] # "crashed"

\* C20: a verdict that is none of Granted, Denied and Error ends the
\* evaluation at the provider that returned it, becomes the final verdict,
\* and is returned as HTTP_INTERNAL_SERVER_ERROR without a challenge.
C20_UnknownVerdictIsError ==
    \A r \in Requests :
        LET log == invoked[r]
        IN  /\ \A i \in 1..Len(log) :
                  log[i].v = AUTHZ_OTHER =>
                      /\ i = Len(log)
                      /\ LoopEnded(r)
                      /\ auth_result[r] = AUTHZ_OTHER
            /\ (pc[r] = "returned" /\ auth_result[r] = AUTHZ_OTHER) =>
                  /\ return_code[r] = <<HTTP_INTERNAL_SERVER_ERROR>>
                  /\ challenges[r] = 0

\* C20 witness: the second of three bindings answered an unknown status
C20_Witness ==
    /\ pc["r1"] = "returned"
    /\ Len(ConfProviders) = 3
    /\ Len(invoked["r1"]) = 2
    /\ invoked["r1"][2].v = AUTHZ_OTHER
    /\ return_code["r1"] = <<HTTP_INTERNAL_SERVER_ERROR>>

====
